---- MODULE Spec2Model ----
(***************************************************************************)
(* Model of src/agent.py: the six calculator tools of the fitness agent.   *)
(*                                                                         *)
(* Python values are records tagged with their type.  A float or int is    *)
(* an exact fraction n/d in lowest terms with d > 0: the model abstracts   *)
(* IEEE-754 doubles to the rationals they approximate.  The one place      *)
(* where the double's error of less than one unit in the last place shows  *)
(* in a result is round() of a value that is exactly halfway between two   *)
(* neighbours: the double may lie on either side (24 / 1.6 ** 2 is 9.375   *)
(* but rounds to 9.37, 3.125 rounds to 3.12), so the side is the variable  *)
(* fp, drawn with the call.  inf and nan are outside the model.  A str is  *)
(* its sequence of characters.  An f-string is the sequence of its literal *)
(* chunks and the characters / values interpolated between them.           *)
(*                                                                         *)
(* A call either returns a dict (a record) or ends by an exception that    *)
(* leaves the function.  Inside a function, a statement that raises is a   *)
(* value [raise |-> <exception type>]; TryExcept is the function's         *)
(* "except Exception as e" clause.                                         *)
(***************************************************************************)
EXTENDS Integers, Sequences, FiniteSets, TLC

VARIABLES call, ret, fp

vars == <<call, ret, fp>>

(***************************************************************************)
(* Bounds of the input domain                                              *)
(***************************************************************************)
\* weights are whole kilograms in -2 .. MaxWeightKg
MaxWeightKg == 130
\* heights are 0 and +/- whole centimetres in MinHeightCm .. MaxHeightCm
MinHeightCm == 140
MaxHeightCm == 200
\* calorie inputs are 50 * k for k in -1 .. MaxCalorieUnits
MaxCalorieUnits == 40
\* weekly targets are the fractions n/d, 1 <= d <= MaxDen, -d <= n <= 2d
MaxDen == 12

(***************************************************************************)
(* Python numbers                                                          *)
(***************************************************************************)
Abs(x) == IF x < 0 THEN -x ELSE x

RECURSIVE GCD(_, _)
GCD(a, b) == IF b = 0 THEN a ELSE GCD(b, a % b)

\* the fraction n/d (d # 0) in lowest terms with a positive denominator
Normal(type, n, d) ==
    LET g == GCD(Abs(n), Abs(d))
        s == IF d < 0 THEN -1 ELSE 1
    IN  [type |-> type, n |-> s * (n \div g), d |-> s * (d \div g)]

PyFloat(n, d) == Normal("float", n, d)
PyInt(k) == [type |-> "int", n |-> k, d |-> 1]
PyStr(chars) == [type |-> "str", chars |-> chars]
PyNone == [type |-> "NoneType"]

IsNumber(v) == v.type \in {"float", "int"}
IsStr(v) == v.type = "str"

\* a raised exception, as the value of the statement that raised it
Raise(exc) == [raise |-> exc]
IsRaise(r) == "raise" \in DOMAIN r

\* x * y, x / y (y # 0) of two numbers
Mul(x, y) == PyFloat(x.n * y.n, x.d * y.d)
Div(x, y) == PyFloat(x.n * y.d, x.d * y.n)
\* x < y, x > y of two numbers
Lt(x, y) == x.n * y.d < y.n * x.d
Gt(x, y) == Lt(y, x)

\* the integer nearest to n/d (d > 0); when n/d is halfway between two
\* integers, the one on the side where the double lies
RoundNearest(n, d) ==
    LET q == n \div d
        r == n % d
    IN  IF 2 * r < d THEN q
        ELSE IF 2 * r > d THEN q + 1
        ELSE IF fp = "below" THEN q ELSE q + 1

\* variant of round2 that a slip would give: cuts the digits after the
\* second decimal instead of rounding
round2_truncating(x) == PyFloat((x.n * 100) \div x.d, 100)

\* round(x, 2): a float
round2(x) == PyFloat(RoundNearest(x.n * 100, x.d), 100)
\* round(x): an int
round0(x) == PyInt(RoundNearest(x.n, x.d))

\* except Exception as e: return {"status": "error", "error_message": str(e)}
TryExcept(r) ==
    IF IsRaise(r)
    THEN [status |-> "error", error_message |-> <<r.raise>>]
    ELSE r

(***************************************************************************)
(* calculate_bmi                                                           *)
(***************************************************************************)
\* variant of bmi_category that a slip would give: the usual boundaries
\* 18.5 / 25 / 30 in place of the code's
bmi_category_who(bmi) ==
    IF Lt(bmi, PyFloat(185, 10)) THEN "Underweight"
    ELSE IF Lt(bmi, PyInt(25)) THEN "Normal weight"
    ELSE IF Lt(bmi, PyInt(30)) THEN "Overweight"
    ELSE "Obese"

bmi_category(bmi) ==
    IF Lt(bmi, PyFloat(185, 10)) THEN "Underweight"
    ELSE IF Lt(bmi, PyFloat(249, 10)) THEN "Normal weight"
    ELSE IF Lt(bmi, PyFloat(299, 10)) THEN "Overweight"
    ELSE "Obese"

\* the body of the try block
calculate_bmi_try(weight, height) ==
    IF ~IsNumber(height) THEN Raise("TypeError")
    ELSE LET height_m == Div(height, PyInt(100))
             squared == Mul(height_m, height_m)
         IN  IF ~IsNumber(weight) THEN Raise("TypeError")
             ELSE IF squared.n = 0 THEN Raise("ZeroDivisionError")
             ELSE LET bmi == Div(weight, squared)
                      category == bmi_category(bmi)
                  IN  [status |-> "success",
                       bmi |-> round2(bmi),
                       category |-> category,
                       message |-> <<"Your BMI is ", round2(bmi), " (",
                                     category, ").">>]

calculate_bmi(weight, height) == TryExcept(calculate_bmi_try(weight, height))

(***************************************************************************)
(* Python strings                                                          *)
(***************************************************************************)
\* the cased characters of the model's alphabet: upper case -> lower case
LowerOf ==
    [c \in {"A", "B", "G", "I", "K", "L", "M", "N", "O", "S", "T", "U"} |->
        CASE c = "A" -> "a" [] c = "B" -> "b" [] c = "G" -> "g"
          [] c = "I" -> "i" [] c = "K" -> "k" [] c = "L" -> "l"
          [] c = "M" -> "m" [] c = "N" -> "n" [] c = "O" -> "o"
          [] c = "S" -> "s" [] c = "T" -> "t" [] c = "U" -> "u"]

\* variant of lower that a slip would give: the goal is compared as typed
lower_identity(chars) == chars

\* str.lower(): every upper-case character replaced by its lower-case one
lower(chars) ==
    [i \in 1..Len(chars) |->
        IF chars[i] \in DOMAIN LowerOf THEN LowerOf[chars[i]] ELSE chars[i]]

loss == <<"l", "o", "s", "s">>
gain == <<"g", "a", "i", "n">>
maintain == <<"m", "a", "i", "n", "t", "a", "i", "n">>

(***************************************************************************)
(* fitness_tips: no try block, an exception leaves the function            *)
(***************************************************************************)
loss_tips ==
    <<"Incorporate cardio workouts like running or cycling.",
      "Maintain a calorie deficit.",
      "Eat more protein and fiber.",
      "Avoid sugary drinks.">>

gain_tips ==
    <<"Include strength training in your routine.",
      "Increase your caloric intake with healthy foods.",
      "Consume more protein and carbs.",
      "Ensure adequate rest for muscle recovery.">>

fitness_tips(goal_arg) ==
    IF ~IsStr(goal_arg) THEN Raise("AttributeError")
    ELSE LET goal == lower(goal_arg.chars)
         IN  IF goal = loss
             THEN [status |-> "success", goal |-> goal, tips |-> loss_tips]
             ELSE IF goal = gain
             THEN [status |-> "success", goal |-> goal, tips |-> gain_tips]
             ELSE [status |-> "error",
                   error_message |->
                       <<"Goal '">> \o goal
                       \o <<"' is not recognized. Use 'loss' or 'gain'.">>]

(***************************************************************************)
(* calculate_maintenance_calories                                          *)
(***************************************************************************)
calculate_maintenance_calories_try(weight) ==
    IF ~IsNumber(weight) THEN Raise("TypeError")
    ELSE LET weight_lbs == Mul(weight, PyFloat(22, 10))
             maintenance_calories == Mul(weight_lbs, PyInt(14))
         IN  [status |-> "success",
              weight_kg |-> weight,
              weight_lbs |-> round2(weight_lbs),
              maintenance_calories |-> round2(maintenance_calories),
              message |-> <<"Estimated maintenance calories: ",
                            round2(maintenance_calories), " kcal/day.">>]

calculate_maintenance_calories(weight) ==
    TryExcept(calculate_maintenance_calories_try(weight))

(***************************************************************************)
(* calculate_macronutrients                                                *)
(***************************************************************************)
\* variant of calculate_macronutrients_try that a slip would give: the
\* split follows the goal
calculate_macronutrients_try_by_goal(calories, goal_arg) ==
    IF ~IsStr(goal_arg) THEN Raise("AttributeError")
    ELSE LET goal == lower(goal_arg.chars)
         IN  IF goal \notin {loss, gain, maintain}
             THEN [status |-> "error",
                   error_message |->
                       <<"Goal '">> \o goal
                       \o <<"' is invalid. Use 'loss', 'gain', or 'maintain'.">>]
             ELSE IF ~IsNumber(calories) THEN Raise("TypeError")
             ELSE LET protein_ratio ==
                          IF goal = gain THEN PyFloat(30, 100) ELSE PyFloat(35, 100)
                      fat_ratio == PyFloat(25, 100)
                      carbs_ratio ==
                          IF goal = gain THEN PyFloat(45, 100) ELSE PyFloat(40, 100)
                      protein_grams == Div(Mul(calories, protein_ratio), PyInt(4))
                      fat_grams == Div(Mul(calories, fat_ratio), PyInt(9))
                      carbs_grams == Div(Mul(calories, carbs_ratio), PyInt(4))
                  IN  [status |-> "success",
                       goal |-> goal,
                       calories |-> round0(calories),
                       macronutrients |->
                           [protein_grams |-> round2(protein_grams),
                            fat_grams |-> round2(fat_grams),
                            carbs_grams |-> round2(carbs_grams)],
                       message |-> <<"For a ">> \o goal \o <<" goal">>]

calculate_macronutrients_try(calories, goal_arg) ==
    IF ~IsStr(goal_arg) THEN Raise("AttributeError")
    ELSE LET goal == lower(goal_arg.chars)
         IN  IF goal \notin {loss, gain, maintain}
             THEN [status |-> "error",
                   error_message |->
                       <<"Goal '">> \o goal
                       \o <<"' is invalid. Use 'loss', 'gain', or 'maintain'.">>]
             ELSE IF ~IsNumber(calories) THEN Raise("TypeError")
             ELSE LET protein_ratio == PyFloat(35, 100)
                      fat_ratio == PyFloat(25, 100)
                      carbs_ratio == PyFloat(40, 100)
                      protein_cals == Mul(calories, protein_ratio)
                      fat_cals == Mul(calories, fat_ratio)
                      carbs_cals == Mul(calories, carbs_ratio)
                      protein_grams == Div(protein_cals, PyInt(4))
                      fat_grams == Div(fat_cals, PyInt(9))
                      carbs_grams == Div(carbs_cals, PyInt(4))
                  IN  [status |-> "success",
                       goal |-> goal,
                       calories |-> round0(calories),
                       macronutrients |->
                           [protein_grams |-> round2(protein_grams),
                            fat_grams |-> round2(fat_grams),
                            carbs_grams |-> round2(carbs_grams)],
                       message |->
                           <<"For a ">> \o goal
                           \o <<" goal and ", round0(calories), " kcal/day:\n",
                                "- Protein: ", round2(protein_grams), "g\n",
                                "- Fat: ", round2(fat_grams), "g\n",
                                "- Carbs: ", round2(carbs_grams), "g">>]

calculate_macronutrients(calories, goal_arg) ==
    TryExcept(calculate_macronutrients_try(calories, goal_arg))

(***************************************************************************)
(* calculate_weight_loss_plan                                              *)
(***************************************************************************)
CALORIES_PER_KG == 7700
days == 7

loss_recommendations ==
    <<"Track your food intake and stay in a calorie deficit.",
      "Do cardio exercises like brisk walking, running, or cycling daily.",
      "Stay hydrated and get enough sleep.",
      "Avoid sugary drinks and processed snacks.">>

\* variant of loss_out_of_range that a slip would give: the ends of the
\* range are rejected too
loss_out_of_range_strict(target_weight_loss) ==
    \/ ~Gt(target_weight_loss, PyFloat(5, 10))
    \/ ~Lt(target_weight_loss, PyInt(1))

\* target_weight_loss < 0.5 or target_weight_loss > 1
loss_out_of_range(target_weight_loss) ==
    \/ Lt(target_weight_loss, PyFloat(5, 10))
    \/ Gt(target_weight_loss, PyInt(1))

calculate_weight_loss_plan_try(target_weight_loss) ==
    IF ~IsNumber(target_weight_loss) THEN Raise("TypeError")
    ELSE IF loss_out_of_range(target_weight_loss)
    THEN [status |-> "error",
          error_message |->
              <<"Only 0.5 kg to 1 kg per week is recommended for healthy weight loss.">>]
    ELSE LET total_deficit == Mul(target_weight_loss, PyInt(CALORIES_PER_KG))
             daily_deficit == Div(total_deficit, PyInt(days))
         IN  [status |-> "success",
              target_weight_loss_kg |-> target_weight_loss,
              daily_calorie_deficit |-> round2(daily_deficit),
              message |->
                  <<"To lose ", target_weight_loss,
                    " kg per week, aim for a daily calorie deficit of ",
                    round0(daily_deficit),
                    " kcal. This can be achieved through a combination of diet (eating fewer calories) and exercise (e.g., 30-60 minutes of cardio).">>,
              recommendations |-> loss_recommendations]

calculate_weight_loss_plan(target_weight_loss) ==
    TryExcept(calculate_weight_loss_plan_try(target_weight_loss))

(***************************************************************************)
(* calculate_weight_gain_plan                                              *)
(***************************************************************************)
gain_recommendations ==
    <<"Eat 3 large meals and 2-3 snacks each day.",
      "Include protein-rich foods: eggs, meat, legumes, dairy.",
      "Strength train 3-5 times a week (compound lifts are best).",
      "Add healthy fats (nuts, seeds, olive oil) to meals.",
      "Track progress weekly to adjust intake.">>

\* variant of gain_out_of_range that a slip would give: the limits of
\* the weight-loss plan
gain_out_of_range_loss_limits(target_weight_gain) ==
    \/ Lt(target_weight_gain, PyFloat(5, 10))
    \/ Gt(target_weight_gain, PyInt(1))

\* target_weight_gain < 0.25 or target_weight_gain > 0.5
gain_out_of_range(target_weight_gain) ==
    \/ Lt(target_weight_gain, PyFloat(25, 100))
    \/ Gt(target_weight_gain, PyFloat(5, 10))

calculate_weight_gain_plan_try(target_weight_gain) ==
    IF ~IsNumber(target_weight_gain) THEN Raise("TypeError")
    ELSE IF gain_out_of_range(target_weight_gain)
    THEN [status |-> "error",
          error_message |->
              <<"Only 0.25 kg to 0.5 kg per week is recommended for healthy weight gain.">>]
    ELSE LET total_surplus == Mul(target_weight_gain, PyInt(CALORIES_PER_KG))
             daily_surplus == Div(total_surplus, PyInt(days))
         IN  [status |-> "success",
              target_weight_gain_kg |-> target_weight_gain,
              daily_calorie_surplus |-> round2(daily_surplus),
              message |->
                  <<"To gain ", target_weight_gain,
                    " kg per week, aim for a daily calorie surplus of ",
                    round0(daily_surplus),
                    " kcal. Focus on strength training and consuming calorie-dense, nutritious foods.">>,
              recommendations |-> gain_recommendations]

calculate_weight_gain_plan(target_weight_gain) ==
    TryExcept(calculate_weight_gain_plan_try(target_weight_gain))

(***************************************************************************)
(* Inputs                                                                  *)
(***************************************************************************)
\* arguments that are not numbers: a str and None
NonNumbers == {PyStr(<<"7", "0">>), PyNone}

Weights == {PyFloat(k, 1) : k \in (-2)..MaxWeightKg} \cup NonNumbers
Heights == {PyFloat(0, 1)}
           \cup {PyFloat(h, 1) : h \in MinHeightCm..MaxHeightCm}
           \cup {PyFloat(-h, 1) : h \in MinHeightCm..MaxHeightCm}
           \cup NonNumbers

Calories == {PyFloat(50 * k, 1) : k \in (-1)..MaxCalorieUnits}
            \cup NonNumbers

Targets == {PyFloat(n, d) : n \in (-MaxDen)..(2 * MaxDen), d \in 1..MaxDen}
           \cup NonNumbers

\* upper case of the lower-case letters of the alphabet
UpperOf ==
    [c \in {"a", "b", "g", "i", "k", "l", "m", "n", "o", "s", "t", "u"} |->
        CHOOSE u \in DOMAIN LowerOf : LowerOf[u] = c]

\* every way of writing the lower-case word w in upper and lower case
Casings(w) ==
    {[i \in 1..Len(w) |-> IF up[i] THEN UpperOf[w[i]] ELSE w[i]] :
        up \in [1..Len(w) -> BOOLEAN]}

\* goal words: the three known goals, an unknown one, near misses, empty
Words ==
    {loss, gain, maintain, <<"b", "u", "l", "k">>, <<"l", "o", "s">>,
     <<"g", "a", "i", "n", "s">>, <<>>}

Goals == {PyStr(s) : s \in UNION {Casings(w) : w \in Words}}
         \cup {PyStr(<<" ", "l", "o", "s", "s">>), PyNone, PyInt(1)}

(***************************************************************************)
(* The state machine.  The tools keep no state between calls, so a         *)
(* behaviour is one invocation: Init draws the tool and its arguments,     *)
(* and the tool's action runs the whole function and records how the call  *)
(* ended.                                                                  *)
(***************************************************************************)
Pending == [kind |-> "pending"]
Return(v) == [kind |-> "return", value |-> v]
Propagate(exc) == [kind |-> "raise", exception |-> exc]

Init ==
    /\ ret = Pending
    /\ fp \in {"below", "above"}
    /\ \/ \E weight \in Weights, height \in Heights :
            call = [tool |-> "calculate_bmi", args |-> <<weight, height>>]
       \/ \E goal \in Goals :
            call = [tool |-> "fitness_tips", args |-> <<goal>>]
       \/ \E weight \in Weights :
            call = [tool |-> "calculate_maintenance_calories",
                    args |-> <<weight>>]
       \/ \E calories \in Calories, goal \in Goals :
            call = [tool |-> "calculate_macronutrients",
                    args |-> <<calories, goal>>]
       \* goal omitted: the parameter's default is used
       \/ \E calories \in Calories :
            call = [tool |-> "calculate_macronutrients",
                    args |-> <<calories>>]
       \/ \E target \in Targets :
            call = [tool |-> "calculate_weight_loss_plan",
                    args |-> <<target>>]
       \/ \E target \in Targets :
            call = [tool |-> "calculate_weight_gain_plan",
                    args |-> <<target>>]

Call_calculate_bmi ==
    /\ call.tool = "calculate_bmi"
    /\ ret = Pending
    /\ ret' = Return(calculate_bmi(call.args[1], call.args[2]))
    /\ UNCHANGED <<call, fp>>

\* the call returns the dict, or the exception leaves fitness_tips
Call_fitness_tips ==
    /\ call.tool = "fitness_tips"
    /\ ret = Pending
    /\ LET r == fitness_tips(call.args[1])
       IN  ret' = IF IsRaise(r) THEN Propagate(r.raise) ELSE Return(r)
    /\ UNCHANGED <<call, fp>>

Call_calculate_maintenance_calories ==
    /\ call.tool = "calculate_maintenance_calories"
    /\ ret = Pending
    /\ ret' = Return(calculate_maintenance_calories(call.args[1]))
    /\ UNCHANGED <<call, fp>>

\* goal: str = "loss"
Call_calculate_macronutrients ==
    /\ call.tool = "calculate_macronutrients"
    /\ ret = Pending
    /\ LET goal == IF Len(call.args) = 2 THEN call.args[2] ELSE PyStr(loss)
       IN  ret' = Return(calculate_macronutrients(call.args[1], goal))
    /\ UNCHANGED <<call, fp>>

Call_calculate_weight_loss_plan ==
    /\ call.tool = "calculate_weight_loss_plan"
    /\ ret = Pending
    /\ ret' = Return(calculate_weight_loss_plan(call.args[1]))
    /\ UNCHANGED <<call, fp>>

Call_calculate_weight_gain_plan ==
    /\ call.tool = "calculate_weight_gain_plan"
    /\ ret = Pending
    /\ ret' = Return(calculate_weight_gain_plan(call.args[1]))
    /\ UNCHANGED <<call, fp>>

Next ==
    \/ Call_calculate_bmi
    \/ Call_fitness_tips
    \/ Call_calculate_maintenance_calories
    \/ Call_calculate_macronutrients
    \/ Call_calculate_weight_loss_plan
    \/ Call_calculate_weight_gain_plan

Spec == Init /\ [][Next]_vars

(***************************************************************************)
(* Properties                                                              *)
(***************************************************************************)
Returned == ret.kind = "return"
Called(tool) == call.tool = tool /\ ret # Pending

\* a float with at most two decimals, in hundredths
Hundredths(x) == x.n * (100 \div x.d)
TwoDecimals(x) == x.type = "float" /\ 100 % x.d = 0

\* h (in hundredths) is a nearest hundredth of the fraction n/d, d > 0
NearestHundredth(h, n, d) == 2 * Abs(100 * n - h * d) <= d

\* msg contains the characters of word, in order and adjacent
Mentions(msg, word) ==
    \E i \in 1..(Len(msg) - Len(word) + 1) :
        \A j \in 1..Len(word) : msg[i + j - 1] = word[j]

\* b is a with each of its upper-case characters in lower case
LoweredFormOf(b, a) ==
    /\ Len(b) = Len(a)
    /\ \A i \in 1..Len(a) :
          /\ b[i] \notin DOMAIN LowerOf
          /\ \/ b[i] = a[i]
             \/ a[i] \in DOMAIN LowerOf /\ LowerOf[a[i]] = b[i]

\* C1: every returned result has status success or error; an error result
\* carries error_message and a success result carries message.
C1_ResultShape ==
    Returned =>
        /\ ret.value.status \in {"success", "error"}
        /\ ret.value.status = "error" => "error_message" \in DOMAIN ret.value
        /\ ret.value.status = "success" => "message" \in DOMAIN ret.value

\* C2: no call of any tool, whatever its arguments, ends by an exception
\* leaving the function; a failure comes back as an error result.
C2_NoExceptionLeaves ==
    ret # Pending =>
        /\ Returned
        /\ (\E i \in 1..Len(call.args) : call.args[i].type = "NoneType")
              => /\ ret.value.status = "error"
                 /\ "error_message" \in DOMAIN ret.value

\* C3: calculate_bmi returns an error result whenever weight <= 0 or
\* height <= 0.
C3_BmiRejectsNonPositive ==
    (/\ Called("calculate_bmi")
     /\ IsNumber(call.args[1]) /\ IsNumber(call.args[2])
     /\ (call.args[1].n <= 0 \/ call.args[2].n <= 0))
    => Returned /\ ret.value.status = "error"

\* C4: for weight > 0 and height > 0 calculate_bmi succeeds, bmi is
\* weight / (height/100)^2 rounded to two decimals, and the category is the
\* one the thresholds 18.5 / 24.9 / 29.9 give for that BMI; weight 70 and
\* height 175 give 22.86, Normal weight.
C4_BmiFormulaAndCategory ==
    (/\ Called("calculate_bmi")
     /\ IsNumber(call.args[1]) /\ IsNumber(call.args[2])
     /\ call.args[1].n > 0 /\ call.args[2].n > 0)
    => LET w == call.args[1]
           h == call.args[2]
           \* weight / (height/100)^2 = N / D
           N == w.n * 10000 * h.d * h.d
           D == w.d * h.n * h.n
           v == ret.value
       IN  /\ Returned
           /\ v.status = "success"
           /\ TwoDecimals(v.bmi)
           /\ NearestHundredth(Hundredths(v.bmi), N, D)
           /\ v.category =
                 IF 10 * N < 185 * D THEN "Underweight"
                 ELSE IF 10 * N < 249 * D THEN "Normal weight"
                 ELSE IF 10 * N < 299 * D THEN "Overweight"
                 ELSE "Obese"
           /\ (w = PyFloat(70, 1) /\ h = PyFloat(175, 1))
                 => v.bmi = PyFloat(2286, 100) /\ v.category = "Normal weight"

C4_Witness ==
    /\ Called("calculate_bmi")
    /\ call.args = <<PyFloat(70, 1), PyFloat(175, 1)>>
    /\ Returned
    /\ ret.value.status = "success"
    /\ ret.value.bmi = PyFloat(2286, 100)
    /\ ret.value.category = "Normal weight"

\* the goal strings fitness_tips is called with
TipsGoalIsStr == Called("fitness_tips") /\ IsStr(call.args[1])

\* what C5 says of the goals that are a casing of "loss" or of "gain"
C5_KnownGoals ==
    LET g == call.args[1].chars
    IN  /\ g \in Casings(loss) =>
              /\ Returned
              /\ ret.value.status = "success"
              /\ ret.value.tips = loss_tips
        /\ g \in Casings(gain) =>
              /\ Returned
              /\ ret.value.status = "success"
              /\ ret.value.tips = gain_tips
        /\ g \notin Casings(loss) \cup Casings(gain) =>
              /\ Returned
              /\ ret.value.status = "error"
              /\ "tips" \notin DOMAIN ret.value

\* C5 as stated: any casing of "loss" / "gain" gives the four loss / gain
\* tips, and every other goal string gives an error whose message names the
\* goal that was passed.
C5_ErrorNamesGoalAsPassed ==
    TipsGoalIsStr =>
        /\ C5_KnownGoals
        /\ call.args[1].chars \notin Casings(loss) \cup Casings(gain) =>
              Mentions(ret.value.error_message, call.args[1].chars)

\* C5 amended: as C5, but the error message names the goal converted to
\* lower case, which is the goal as passed only when that held no upper-case
\* character.
C5_ErrorNamesGoalLowered ==
    TipsGoalIsStr =>
        /\ C5_KnownGoals
        /\ Len(loss_tips) = 4 /\ Len(gain_tips) = 4
        /\ call.args[1].chars \notin Casings(loss) \cup Casings(gain) =>
              LET g == call.args[1].chars
                  msg == ret.value.error_message
              IN  /\ \E i \in 1..(Len(msg) - Len(g) + 1) :
                        LoweredFormOf(SubSeq(msg, i, i + Len(g) - 1), g)
                  /\ (\A i \in 1..Len(g) : g[i] \notin DOMAIN LowerOf)
                        => Mentions(msg, g)

C5_Witness ==
    /\ TipsGoalIsStr
    /\ call.args[1].chars = <<"B", "U", "L", "K">>
    /\ Returned
    /\ ret.value.status = "error"
    /\ Mentions(ret.value.error_message, <<"b", "u", "l", "k">>)
    /\ ~Mentions(ret.value.error_message, <<"B", "U", "L", "K">>)

\* the goal calculate_macronutrients runs with: the argument, or the default
MacroGoal == IF Len(call.args) = 2 THEN call.args[2] ELSE PyStr(loss)

MacroGoalStrings == Casings(loss) \cup Casings(gain) \cup Casings(maintain)

\* C6: for every calories value and every casing of loss / gain / maintain,
\* calculate_macronutrients succeeds with protein = 0.35*calories/4,
\* fat = 0.25*calories/9 and carbs = 0.40*calories/4, each rounded to two
\* decimals, so the macronutrients are the same for every valid goal
\* (2000 kcal, gain: 175.0, 55.56, 200.0); any other goal string gives an
\* error result without macronutrients.
C6_MacrosIndependentOfGoal ==
    (Called("calculate_macronutrients") /\ IsStr(MacroGoal)) =>
        LET c == call.args[1]
            v == ret.value
        IN  /\ Returned
            /\ (MacroGoal.chars \in MacroGoalStrings /\ IsNumber(c)) =>
                  /\ v.status = "success"
                  /\ TwoDecimals(v.macronutrients.protein_grams)
                  /\ TwoDecimals(v.macronutrients.fat_grams)
                  /\ TwoDecimals(v.macronutrients.carbs_grams)
                  /\ NearestHundredth(Hundredths(v.macronutrients.protein_grams),
                                      35 * c.n, 400 * c.d)
                  /\ NearestHundredth(Hundredths(v.macronutrients.fat_grams),
                                      25 * c.n, 900 * c.d)
                  /\ NearestHundredth(Hundredths(v.macronutrients.carbs_grams),
                                      40 * c.n, 400 * c.d)
                  /\ \A other \in {loss, gain, maintain} :
                        calculate_macronutrients(c, PyStr(other)).macronutrients
                            = v.macronutrients
                  /\ (c = PyFloat(2000, 1) /\ MacroGoal = PyStr(gain)) =>
                        v.macronutrients =
                            [protein_grams |-> PyFloat(175, 1),
                             fat_grams |-> PyFloat(5556, 100),
                             carbs_grams |-> PyFloat(200, 1)]
            /\ MacroGoal.chars \notin MacroGoalStrings =>
                  /\ v.status = "error"
                  /\ "macronutrients" \notin DOMAIN v

C6_Witness ==
    /\ Called("calculate_macronutrients")
    /\ call.args = <<PyFloat(2000, 1), PyStr(<<"G", "a", "i", "n">>)>>
    /\ Returned
    /\ ret.value.status = "success"
    /\ ret.value.macronutrients.fat_grams = PyFloat(5556, 100)
    /\ ret.value.macronutrients
          = calculate_macronutrients(PyFloat(2000, 1), PyStr(maintain)).macronutrients

\* C7: calculate_weight_loss_plan succeeds exactly when 0.5 <= target <= 1,
\* then with daily_calorie_deficit = target * 7700 / 7 rounded to two
\* decimals and the four recommendations; any other target gives an error
\* result without deficit and recommendations (0.4 rejected, 0.7 -> 770.0).
C7_WeightLossPlan ==
    (Called("calculate_weight_loss_plan") /\ IsNumber(call.args[1])) =>
        LET t == call.args[1]
            v == ret.value
            inRange == 2 * t.n >= t.d /\ t.n <= t.d
        IN  /\ Returned
            /\ v.status = "success" <=> inRange
            /\ inRange =>
                  /\ TwoDecimals(v.daily_calorie_deficit)
                  /\ NearestHundredth(Hundredths(v.daily_calorie_deficit),
                                      7700 * t.n, 7 * t.d)
                  /\ Len(v.recommendations) = 4
                  /\ v.recommendations = loss_recommendations
            /\ ~inRange =>
                  /\ v.status = "error"
                  /\ "daily_calorie_deficit" \notin DOMAIN v
                  /\ "recommendations" \notin DOMAIN v
            /\ t = PyFloat(4, 10) => v.status = "error"
            /\ t = PyFloat(7, 10) => v.daily_calorie_deficit = PyFloat(770, 1)

\* both ends of the range are accepted and 0.7 gives 770.0
C7_Witness ==
    /\ Called("calculate_weight_loss_plan")
    /\ call.args[1] = PyFloat(1, 2)
    /\ Returned
    /\ ret.value.status = "success"
    /\ ret.value.daily_calorie_deficit = PyFloat(550, 1)
    /\ calculate_weight_loss_plan(PyInt(1)).status = "success"
    /\ calculate_weight_loss_plan(PyFloat(7, 10)).daily_calorie_deficit
          = PyFloat(770, 1)

\* C8: calculate_weight_gain_plan succeeds exactly when
\* 0.25 <= target <= 0.5, then with daily_calorie_surplus =
\* target * 7700 / 7 rounded to two decimals and the five recommendations;
\* any other target gives an error result without surplus and
\* recommendations (0.6 rejected, 0.3 -> 330.0).
C8_WeightGainPlan ==
    (Called("calculate_weight_gain_plan") /\ IsNumber(call.args[1])) =>
        LET t == call.args[1]
            v == ret.value
            inRange == 4 * t.n >= t.d /\ 2 * t.n <= t.d
        IN  /\ Returned
            /\ v.status = "success" <=> inRange
            /\ inRange =>
                  /\ TwoDecimals(v.daily_calorie_surplus)
                  /\ NearestHundredth(Hundredths(v.daily_calorie_surplus),
                                      7700 * t.n, 7 * t.d)
                  /\ Len(v.recommendations) = 5
                  /\ v.recommendations = gain_recommendations
            /\ ~inRange =>
                  /\ v.status = "error"
                  /\ "daily_calorie_surplus" \notin DOMAIN v
                  /\ "recommendations" \notin DOMAIN v
            /\ t = PyFloat(6, 10) => v.status = "error"
            /\ t = PyFloat(3, 10) => v.daily_calorie_surplus = PyFloat(330, 1)

C8_Witness ==
    /\ Called("calculate_weight_gain_plan")
    /\ call.args[1] = PyFloat(1, 4)
    /\ Returned
    /\ ret.value.status = "success"
    /\ ret.value.daily_calorie_surplus = PyFloat(275, 1)
    /\ calculate_weight_gain_plan(PyFloat(1, 2)).status = "success"
    /\ calculate_weight_gain_plan(PyFloat(3, 10)).daily_calorie_surplus
          = PyFloat(330, 1)

\* the category the thresholds 18.5 / 24.9 / 29.9 give for a BMI of h
\* hundredths
CategoryOfHundredths(h) ==
    IF h < 1850 THEN "Underweight"
    ELSE IF h < 2490 THEN "Normal weight"
    ELSE IF h < 2990 THEN "Overweight"
    ELSE "Obese"

BmiSucceeded ==
    Called("calculate_bmi") /\ Returned /\ ret.value.status = "success"

\* C10 as stated: in every successful calculate_bmi result the thresholds
\* applied to the returned two-decimal bmi give the returned category.
C10_CategoryOfReportedBmi ==
    BmiSucceeded =>
        CategoryOfHundredths(Hundredths(ret.value.bmi)) = ret.value.category

\* C10 amended: the thresholds applied to the returned bmi give the returned
\* category, except that a BMI below a threshold that rounds up onto it is
\* reported as the threshold value with the category below the threshold.
C10_CategoryOfReportedBmiUnlessRoundedUp ==
    BmiSucceeded =>
        LET b == Hundredths(ret.value.bmi)
            w == call.args[1]
            h == call.args[2]
            N == w.n * 10000 * h.d * h.d
            D == w.d * h.n * h.n
        IN  \/ CategoryOfHundredths(b) = ret.value.category
            \/ /\ b \in {1850, 2490, 2990}
               /\ 100 * N < b * D
               /\ ret.value.category = CategoryOfHundredths(b - 1)

C10_Witness ==
    /\ BmiSucceeded
    /\ call.args = <<PyFloat(56, 1), PyFloat(174, 1)>>
    /\ ret.value.bmi = PyFloat(185, 10)
    /\ ret.value.category = "Underweight"
====
